---- MODULE Spec2Model ----
(***************************************************************************)
(* Key layer of rust-secp256k1 (src/src/key.rs): SecretKey and PublicKey,  *)
(* their constructors, in-place tweaks, combination, serialization and     *)
(* derived comparison.                                                     *)
(*                                                                         *)
(* The curve backend (ffi / libsecp256k1) is not part of key.rs; it is     *)
(* modelled from its contract on a scaled-down curve of the same shape:    *)
(* y^2 = x^3 + 7 over F_13, a group of prime order 7, with bytes in base 5 *)
(* and two bytes per scalar / field element, so that tags 0x02 0x03 0x04,  *)
(* values at and above the group order, and multi-byte encodings all       *)
(* exist.                                                                  *)
(***************************************************************************)
EXTENDS Integers, Sequences, FiniteSets, TLC

VARIABLES sk, pk, op, res, arg, out

vars == <<sk, pk, op, res, arg, out>>

----------------------------------------------------------------------------
(* Scaled constants of the backend and of constants.rs *)

ByteBase == 5
FieldPrime == 13
CurveB == 7
GroupOrder == 7
SECRET_KEY_SIZE == 2
PUBLIC_KEY_SIZE == SECRET_KEY_SIZE + 1
UNCOMPRESSED_PUBLIC_KEY_SIZE == 2 * SECRET_KEY_SIZE + 1
SECP256K1_TAG_PUBKEY_EVEN == 2
SECP256K1_TAG_PUBKEY_ODD == 3
SECP256K1_TAG_PUBKEY_UNCOMPRESSED == 4

(* Bounds of the model *)
MaxSliceLen == 6
MaxDraws == 2
MaxStream == 3

Byte == 0 .. (ByteBase - 1)

RECURSIVE Pow(_, _)
Pow(b, e) == IF e = 0 THEN 1 ELSE b * Pow(b, e - 1)

(* big-endian value of a byte string *)
RECURSIVE BE(_)
BE(s) == IF Len(s) = 0 THEN 0
         ELSE BE(SubSeq(s, 1, Len(s) - 1)) * ByteBase + s[Len(s)]

(* little-endian value of a byte string *)
RECURSIVE LE(_)
LE(s) == IF Len(s) = 0 THEN 0
         ELSE s[1] + ByteBase * LE(SubSeq(s, 2, Len(s)))

(* the n-byte big-endian / little-endian encodings of v < ByteBase^n *)
ToBE(v, n) == [i \in 1 .. n |-> (v \div Pow(ByteBase, n - i)) % ByteBase]
ToLE(v, n) == [i \in 1 .. n |-> (v \div Pow(ByteBase, i - 1)) % ByteBase]

Zeros(n) == [i \in 1 .. n |-> 0]

RECURSIVE SeqsOfLen(_)
SeqsOfLen(n) == IF n = 0 THEN {<<>>}
                ELSE {Append(s, b) : s \in SeqsOfLen(n - 1), b \in Byte}

----------------------------------------------------------------------------
(* Group law of the curve *)

Inf == <<>>

OnCurve(x, y) == (y * y) % FieldPrime = (x * x * x + CurveB) % FieldPrime

CurvePoints ==
    UNION {{<<x, y>> : y \in {v \in 0 .. FieldPrime - 1 : OnCurve(x, v)}} :
              x \in 0 .. FieldPrime - 1}

ModInv(a) == CHOOSE i \in 1 .. FieldPrime - 1 : (a * i) % FieldPrime = 1

PointNeg(a) == IF a = Inf THEN Inf ELSE <<a[1], (FieldPrime - a[2]) % FieldPrime>>

PointAdd(a, b) ==
    IF a = Inf THEN b
    ELSE IF b = Inf THEN a
    ELSE IF a[1] = b[1] /\ (a[2] + b[2]) % FieldPrime = 0 THEN Inf
    ELSE LET P == FieldPrime
             lam == IF a = b
                    THEN (3 * a[1] * a[1] * ModInv((2 * a[2]) % P)) % P
                    ELSE (((b[2] - a[2] + P) % P) * ModInv((b[1] - a[1] + P) % P)) % P
             x3 == (lam * lam + 2 * P - a[1] - b[1]) % P
             y3 == (lam * ((a[1] - x3 + P) % P) + P - a[2]) % P
         IN <<x3, y3>>

RECURSIVE PointMul(_, _)
PointMul(k, a) == IF k = 0 THEN Inf ELSE PointAdd(a, PointMul(k - 1, a))

Generator == <<7, 5>>

(* the group law tabulated once *)
AllPoints == CurvePoints \cup {Inf}
AddTable == [a \in AllPoints |-> [b \in AllPoints |-> PointAdd(a, b)]]
MulTable == [k \in 0 .. GroupOrder - 1 |-> [a \in AllPoints |-> PointMul(k, a)]]

----------------------------------------------------------------------------
(* Curve backend contract (ffi), on the scaled curve *)

(* ffi::PublicKey: the opaque buffer, x then y, each stored least         *)
(* significant byte first (the backend's storage form, not a wire form)   *)
secp256k1_pubkey_save(q) ==
    ToLE(q[1], SECRET_KEY_SIZE) \o ToLE(q[2], SECRET_KEY_SIZE)

(* the point a buffer holds, Inf when it holds none *)
secp256k1_pubkey_load(buf) ==
    LET q == <<LE(SubSeq(buf, 1, SECRET_KEY_SIZE)),
               LE(SubSeq(buf, SECRET_KEY_SIZE + 1, 2 * SECRET_KEY_SIZE))>>
    IN IF q \in CurvePoints THEN q ELSE Inf

(* ffi::PublicKey::new(): the zeroed buffer *)
ffi_PublicKey_new == Zeros(2 * SECRET_KEY_SIZE)

(* values of type ffi::PublicKey the model draws from: the zeroed buffer, *)
(* a buffer of coordinates off the curve, and every stored point          *)
FfiPublicKeys ==
    {ffi_PublicKey_new, secp256k1_pubkey_save(<<7, 6>>)}
        \cup {secp256k1_pubkey_save(q) : q \in CurvePoints}

(* ffi::PublicKey::blank(): uninitialized memory, any content *)
ffi_PublicKey_blank == FfiPublicKeys

(* what a failed in-place backend call may leave in the caller's buffer:  *)
(* the contract promises the mutation on success only                     *)
FailResidue(old) == {old, Zeros(Len(old))}

secp256k1_ec_seckey_verify(seckey) ==
    IF BE(seckey) # 0 /\ BE(seckey) < GroupOrder THEN 1 ELSE 0

secp256k1_ec_privkey_tweak_add(seckey, tweak) ==
    LET r == (BE(seckey) + BE(tweak)) % GroupOrder
    IN IF BE(tweak) < GroupOrder /\ r # 0
       THEN {[ret |-> 1, seckey |-> ToBE(r, SECRET_KEY_SIZE)]}
       ELSE {[ret |-> 0, seckey |-> b] : b \in FailResidue(seckey)}

secp256k1_ec_privkey_tweak_mul(seckey, tweak) ==
    LET r == (BE(seckey) * BE(tweak)) % GroupOrder
    IN IF BE(tweak) < GroupOrder /\ r # 0
       THEN {[ret |-> 1, seckey |-> ToBE(r, SECRET_KEY_SIZE)]}
       ELSE {[ret |-> 0, seckey |-> b] : b \in FailResidue(seckey)}

(* point = scalar * generator; pubkey is the caller's buffer, written on  *)
(* success                                                                *)
secp256k1_ec_pubkey_create(pubkey, seckey) ==
    IF secp256k1_ec_seckey_verify(seckey) = 1
    THEN [ret |-> 1, pubkey |-> secp256k1_pubkey_save(MulTable[BE(seckey)][Generator])]
    ELSE [ret |-> 0, pubkey |-> pubkey]

(* compressed: tag 0x02/0x03 + x; uncompressed: tag 0x04 + x + y *)
secp256k1_ec_pubkey_parse(pubkey, input) ==
    LET n == SECRET_KEY_SIZE
        x == BE(SubSeq(input, 2, n + 1))
        y == BE(SubSeq(input, n + 2, 2 * n + 1))
        odd == input[1] - SECP256K1_TAG_PUBKEY_EVEN
        IsRoot(q) == q[1] = x /\ q[2] % 2 = odd
    IN IF /\ Len(input) = PUBLIC_KEY_SIZE
          /\ input[1] \in {SECP256K1_TAG_PUBKEY_EVEN, SECP256K1_TAG_PUBKEY_ODD}
          /\ \E q \in CurvePoints : IsRoot(q)
       THEN [ret |-> 1, pubkey |-> secp256k1_pubkey_save(CHOOSE q \in CurvePoints : IsRoot(q))]
       ELSE IF /\ Len(input) = UNCOMPRESSED_PUBLIC_KEY_SIZE
               /\ input[1] = SECP256K1_TAG_PUBKEY_UNCOMPRESSED
               /\ <<x, y>> \in CurvePoints
       THEN [ret |-> 1, pubkey |-> secp256k1_pubkey_save(<<x, y>>)]
       ELSE [ret |-> 0, pubkey |-> pubkey]

(* output is the caller's zero-filled array of the requested size *)
secp256k1_ec_pubkey_serialize(output, pubkey, compressed) ==
    LET q == secp256k1_pubkey_load(pubkey)
    IN IF q = Inf THEN [ret |-> 0, output |-> output]
       ELSE IF compressed
       THEN [ret |-> 1,
             output |-> <<IF q[2] % 2 = 0 THEN SECP256K1_TAG_PUBKEY_EVEN
                          ELSE SECP256K1_TAG_PUBKEY_ODD>>
                        \o ToBE(q[1], SECRET_KEY_SIZE)]
       ELSE [ret |-> 1,
             output |-> <<SECP256K1_TAG_PUBKEY_UNCOMPRESSED>>
                        \o ToBE(q[1], SECRET_KEY_SIZE) \o ToBE(q[2], SECRET_KEY_SIZE)]

(* pubkey := pubkey + tweak * G *)
secp256k1_ec_pubkey_tweak_add(pubkey, tweak) ==
    LET q == secp256k1_pubkey_load(pubkey)
        r == AddTable[q][MulTable[BE(tweak) % GroupOrder][Generator]]
    IN IF q # Inf /\ BE(tweak) < GroupOrder /\ r # Inf
       THEN {[ret |-> 1, pubkey |-> secp256k1_pubkey_save(r)]}
       ELSE {[ret |-> 0, pubkey |-> b] : b \in FailResidue(pubkey)}

(* pubkey := tweak * pubkey *)
secp256k1_ec_pubkey_tweak_mul(pubkey, tweak) ==
    LET q == secp256k1_pubkey_load(pubkey)
        r == MulTable[BE(tweak) % GroupOrder][q]
    IN IF q # Inf /\ BE(tweak) < GroupOrder /\ r # Inf
       THEN {[ret |-> 1, pubkey |-> secp256k1_pubkey_save(r)]}
       ELSE {[ret |-> 0, pubkey |-> b] : b \in FailResidue(pubkey)}

(* out := ins[1] + ins[2]; 0 when the sum is the point at infinity *)
secp256k1_ec_pubkey_combine(out_, ins) ==
    LET a == secp256k1_pubkey_load(ins[1])
        b == secp256k1_pubkey_load(ins[2])
        r == AddTable[a][b]
    IN IF a # Inf /\ b # Inf /\ r # Inf
       THEN [ret |-> 1, pubkey |-> secp256k1_pubkey_save(r)]
       ELSE [ret |-> 0, pubkey |-> out_]

----------------------------------------------------------------------------
(* key.rs: values and functions *)

ONE == ToBE(1, SECRET_KEY_SIZE)
ZERO_KEY == Zeros(SECRET_KEY_SIZE)
ONE_KEY == ToBE(1, SECRET_KEY_SIZE)

(* debug_assert_eq!: checked in a build with debug assertions, compiled   *)
(* out otherwise                                                          *)
DebugAssertions == BOOLEAN

(* SecretKey::new: draw, redraw while the backend rejects the draw; draws *)
(* is what the rng yields, in order                                       *)
RECURSIVE SecretKey_new(_)
SecretKey_new(draws) ==
    IF secp256k1_ec_seckey_verify(Head(draws)) = 0
    THEN SecretKey_new(Tail(draws))
    ELSE Head(draws)

(* from_slice without the backend's verification of the bytes *)
SecretKey_from_slice_unverified(data) ==
    IF Len(data) = SECRET_KEY_SIZE
    THEN [res |-> "Ok", val |-> data]
    ELSE [res |-> "InvalidSecretKey", val |-> <<>>]

SecretKey_from_slice(data) ==
    IF Len(data) = SECRET_KEY_SIZE
    THEN IF secp256k1_ec_seckey_verify(data) = 0
         THEN [res |-> "InvalidSecretKey", val |-> <<>>]
         ELSE [res |-> "Ok", val |-> data]
    ELSE [res |-> "InvalidSecretKey", val |-> <<>>]

SecretKey_add_assign(self, other) ==
    {[res |-> IF o.ret # 1 THEN "InvalidSecretKey" ELSE "Ok", self |-> o.seckey] :
        o \in secp256k1_ec_privkey_tweak_add(self, other)}

SecretKey_mul_assign(self, other) ==
    {[res |-> IF o.ret # 1 THEN "InvalidSecretKey" ELSE "Ok", self |-> o.seckey] :
        o \in secp256k1_ec_privkey_tweak_mul(self, other)}

(* impl Deserialize for SecretKey *)
SecretKey_deserialize(sl) ==
    IF Len(sl) # SECRET_KEY_SIZE
    THEN [res |-> "invalid_length", val |-> <<>>]
    ELSE [res |-> "Ok", val |-> sl]

(* the possible returns of from_secret_key: a panic of the debug          *)
(* assertion, or PublicKey(pk)                                            *)
PublicKey_from_secret_key(skey) ==
    UNION {LET o == secp256k1_ec_pubkey_create(blank, skey)
           IN {IF dbg /\ o.ret # 1
               THEN [res |-> "Panic", val |-> <<>>]
               ELSE [res |-> "Ok", val |-> o.pubkey] : dbg \in DebugAssertions} :
           blank \in ffi_PublicKey_blank}

(* from_slice that wraps the buffer whatever the backend's parse returned *)
PublicKey_from_slice_unchecked(data) ==
    IF Len(data) = 0
    THEN [res |-> "InvalidPublicKey", val |-> <<>>]
    ELSE [res |-> "Ok",
          val |-> secp256k1_ec_pubkey_parse(ffi_PublicKey_new, data).pubkey]

PublicKey_from_slice(data) ==
    IF Len(data) = 0
    THEN [res |-> "InvalidPublicKey", val |-> <<>>]
    ELSE LET o == secp256k1_ec_pubkey_parse(ffi_PublicKey_new, data)
         IN IF o.ret = 1
            THEN [res |-> "Ok", val |-> o.pubkey]
            ELSE [res |-> "InvalidPublicKey", val |-> <<>>]

PublicKey_serialize(self) ==
    LET o == secp256k1_ec_pubkey_serialize(Zeros(PUBLIC_KEY_SIZE), self, TRUE)
    IN {IF dbg /\ o.ret # 1
        THEN [res |-> "Panic", val |-> <<>>]
        ELSE [res |-> "Ok", val |-> o.output] : dbg \in DebugAssertions}

PublicKey_serialize_uncompressed(self) ==
    LET o == secp256k1_ec_pubkey_serialize(Zeros(UNCOMPRESSED_PUBLIC_KEY_SIZE), self, FALSE)
    IN {IF dbg /\ o.ret # 1
        THEN [res |-> "Panic", val |-> <<>>]
        ELSE [res |-> "Ok", val |-> o.output] : dbg \in DebugAssertions}

(* add_exp_assign that calls the backend's tweak_mul *)
PublicKey_add_exp_assign_mul(self, other) ==
    {[res |-> IF o.ret = 1 THEN "Ok" ELSE "InvalidSecretKey", self |-> o.pubkey] :
        o \in secp256k1_ec_pubkey_tweak_mul(self, other)}

PublicKey_add_exp_assign(self, other) ==
    {[res |-> IF o.ret = 1 THEN "Ok" ELSE "InvalidSecretKey", self |-> o.pubkey] :
        o \in secp256k1_ec_pubkey_tweak_add(self, other)}

PublicKey_mul_assign(self, other) ==
    {[res |-> IF o.ret = 1 THEN "Ok" ELSE "InvalidSecretKey", self |-> o.pubkey] :
        o \in secp256k1_ec_pubkey_tweak_mul(self, other)}

PublicKey_combine(self, other) ==
    LET o == secp256k1_ec_pubkey_combine(ffi_PublicKey_new, <<self, other>>)
    IN IF o.ret = 1
       THEN [res |-> "Ok", val |-> o.pubkey]
       ELSE [res |-> "InvalidPublicKey", val |-> <<>>]

(* impl From<ffi::PublicKey> for PublicKey *)
PublicKey_from(ffipk) == ffipk

(* impl Deserialize for PublicKey *)
PublicKey_deserialize(sl) == PublicKey_from_slice(sl)

(* derive(PartialEq, Eq): equality of the wrapped buffers *)
PublicKey_eq(a, b) == a = b

(* an order that reads only the first coordinate of the buffer *)
PublicKey_lt_first_half(a, b) ==
    \E i \in 1 .. SECRET_KEY_SIZE :
        /\ a[i] < b[i]
        /\ \A j \in 1 .. (i - 1) : a[j] = b[j]

(* derive(PartialOrd, Ord): the wrapped buffers compared byte by byte *)
PublicKey_lt(a, b) ==
    \E i \in 1 .. Len(a) :
        /\ a[i] < b[i]
        /\ \A j \in 1 .. (i - 1) : a[j] = b[j]

PublicKey_cmp(a, b) ==
    IF PublicKey_lt(a, b) THEN "Less"
    ELSE IF PublicKey_eq(a, b) THEN "Equal"
    ELSE "Greater"

----------------------------------------------------------------------------
(* The caller: the SecretKey and the PublicKey it owns, and the last call *)
(* it made (op), its arguments (arg), its result (res) and the value it   *)
(* returned (out). Keys passed by reference as the other operand are      *)
(* values of the type built by its constructors.                          *)

MaxScalar == Pow(ByteBase, SECRET_KEY_SIZE) - 1

(* byte strings handed to SecretKey::from_slice *)
SkSliceInputs ==
    {ToBE(v, SECRET_KEY_SIZE) : v \in (0 .. GroupOrder) \cup {MaxScalar}}
        \cup {ToBE(1, SECRET_KEY_SIZE - 1), ToBE(1, SECRET_KEY_SIZE + 1)}

(* byte strings handed to the serde Deserialize impl of SecretKey *)
SkDeserializeInputs ==
    {ToBE(v, SECRET_KEY_SIZE) : v \in {0, 2, GroupOrder, MaxScalar}}
        \cup {ToBE(1, SECRET_KEY_SIZE + 1)}

(* what the rng yields on one draw, and its runs of up to MaxDraws draws  *)
(* that end with the first draw the backend accepts                       *)
RngValues == {ToBE(v, SECRET_KEY_SIZE) : v \in {0, 4, 5, GroupOrder + 1}}

RECURSIVE RngRuns(_)
RngRuns(n) == IF n = 0 THEN {}
              ELSE RngRuns(n - 1)
                       \cup {<<v>> \o r : v \in RngValues, r \in RngRuns(n - 1) \cup {<<>>}}

RngDraws ==
    {e : e \in {d \in RngRuns(MaxDraws) :
        /\ secp256k1_ec_seckey_verify(d[Len(d)]) = 1
        /\ \A i \in 1 .. (Len(d) - 1) : secp256k1_ec_seckey_verify(d[i]) = 0}}

Compressed(q) == <<SECP256K1_TAG_PUBKEY_EVEN + (q[2] % 2)>> \o ToBE(q[1], SECRET_KEY_SIZE)
Uncompressed(q) == <<SECP256K1_TAG_PUBKEY_UNCOMPRESSED>>
                       \o ToBE(q[1], SECRET_KEY_SIZE) \o ToBE(q[2], SECRET_KEY_SIZE)

(* byte strings handed to PublicKey::from_slice and to Deserialize *)
PkSliceInputs ==
    {Compressed(q) : q \in CurvePoints}
        \cup {Uncompressed(Generator), Uncompressed(<<11, 8>>), Uncompressed(<<7, 6>>)}
        \cup {<<>>, Zeros(PUBLIC_KEY_SIZE), Zeros(PUBLIC_KEY_SIZE + 1),
              <<SECP256K1_TAG_PUBKEY_ODD>> \o ToBE(0, SECRET_KEY_SIZE),
              <<SECP256K1_TAG_PUBKEY_UNCOMPRESSED>> \o ToBE(7, SECRET_KEY_SIZE)}

(* the SecretKey values a caller can pass as other: the constants and     *)
(* what from_slice and Deserialize return                                 *)
SecretKeyValues ==
    {ZERO_KEY, ONE_KEY, ONE}
        \cup {SecretKey_from_slice(d).val :
                 d \in {e \in SkSliceInputs : SecretKey_from_slice(e).res = "Ok"}}
        \cup {SecretKey_deserialize(d).val :
                 d \in {e \in SkDeserializeInputs : SecretKey_deserialize(e).res = "Ok"}}

(* the PublicKey values a caller can pass as other: what from_slice and   *)
(* From<ffi::PublicKey> return                                            *)
PublicKeyValues ==
    {PublicKey_from_slice(d).val :
        d \in {e \in PkSliceInputs : PublicKey_from_slice(e).res = "Ok"}}
        \cup {PublicKey_from(f) : f \in FfiPublicKeys}

Running == res # "Panic"

Call_ZERO_KEY ==
    /\ Running
    /\ sk' = ZERO_KEY
    /\ op' = "ZERO_KEY" /\ res' = "Ok" /\ arg' = <<>> /\ out' = ZERO_KEY
    /\ UNCHANGED pk

Call_ONE_KEY ==
    /\ Running
    /\ \E c \in {ONE_KEY, ONE} :
        /\ sk' = c
        /\ op' = "ONE_KEY" /\ res' = "Ok" /\ arg' = <<>> /\ out' = c
    /\ UNCHANGED pk

Call_SecretKey_new ==
    /\ Running
    /\ \E draws \in RngDraws :
        /\ sk' = SecretKey_new(draws)
        /\ op' = "SecretKey::new" /\ res' = "Ok" /\ arg' = <<>>
        /\ out' = SecretKey_new(draws)
    /\ UNCHANGED pk

SecretKey_from_slice_step(data) ==
    /\ Running
    /\ LET r == SecretKey_from_slice(data)
       IN /\ sk' = IF r.res = "Ok" THEN r.val ELSE sk
          /\ op' = "SecretKey::from_slice" /\ res' = r.res
          /\ arg' = <<data>> /\ out' = r.val
    /\ UNCHANGED pk

Call_SecretKey_from_slice ==
    \E data \in SkSliceInputs : SecretKey_from_slice_step(data)

Call_SecretKey_deserialize ==
    /\ Running
    /\ \E sl \in SkDeserializeInputs :
        LET r == SecretKey_deserialize(sl)
        IN /\ sk' = IF r.res = "Ok" THEN r.val ELSE sk
           /\ op' = "SecretKey::deserialize" /\ res' = r.res
           /\ arg' = <<sl>> /\ out' = r.val
    /\ UNCHANGED pk

Call_SecretKey_add_assign ==
    /\ Running
    /\ \E other \in SecretKeyValues :
        \E r \in SecretKey_add_assign(sk, other) :
            /\ sk' = r.self
            /\ op' = "SecretKey::add_assign" /\ res' = r.res
            /\ arg' = <<other>> /\ out' = <<>>
    /\ UNCHANGED pk

Call_SecretKey_mul_assign ==
    /\ Running
    /\ \E other \in SecretKeyValues :
        \E r \in SecretKey_mul_assign(sk, other) :
            /\ sk' = r.self
            /\ op' = "SecretKey::mul_assign" /\ res' = r.res
            /\ arg' = <<other>> /\ out' = <<>>
    /\ UNCHANGED pk

Call_PublicKey_from_secret_key ==
    /\ Running
    /\ \E r \in PublicKey_from_secret_key(sk) :
        /\ pk' = IF r.res = "Ok" THEN r.val ELSE pk
        /\ op' = "PublicKey::from_secret_key" /\ res' = r.res
        /\ arg' = <<sk>> /\ out' = r.val
    /\ UNCHANGED sk

PublicKey_from_slice_step(data) ==
    /\ Running
    /\ LET r == PublicKey_from_slice(data)
       IN /\ pk' = IF r.res = "Ok" THEN r.val ELSE pk
          /\ op' = "PublicKey::from_slice" /\ res' = r.res
          /\ arg' = <<data>> /\ out' = r.val
    /\ UNCHANGED sk

Call_PublicKey_from_slice ==
    \E data \in PkSliceInputs : PublicKey_from_slice_step(data)

Call_PublicKey_deserialize ==
    /\ Running
    /\ \E sl \in PkSliceInputs :
        LET r == PublicKey_deserialize(sl)
        IN /\ pk' = IF r.res = "Ok" THEN r.val ELSE pk
           /\ op' = "PublicKey::deserialize" /\ res' = r.res
           /\ arg' = <<sl>> /\ out' = r.val
    /\ UNCHANGED sk

Call_PublicKey_from ==
    /\ Running
    /\ \E f \in FfiPublicKeys :
        /\ pk' = PublicKey_from(f)
        /\ op' = "PublicKey::from" /\ res' = "Ok"
        /\ arg' = <<f>> /\ out' = PublicKey_from(f)
    /\ UNCHANGED sk

Call_PublicKey_serialize ==
    /\ Running
    /\ \E r \in PublicKey_serialize(pk) :
        /\ op' = "PublicKey::serialize" /\ res' = r.res
        /\ arg' = <<>> /\ out' = r.val
    /\ UNCHANGED <<sk, pk>>

Call_PublicKey_serialize_uncompressed ==
    /\ Running
    /\ \E r \in PublicKey_serialize_uncompressed(pk) :
        /\ op' = "PublicKey::serialize_uncompressed" /\ res' = r.res
        /\ arg' = <<>> /\ out' = r.val
    /\ UNCHANGED <<sk, pk>>

Call_PublicKey_add_exp_assign ==
    /\ Running
    /\ \E other \in SecretKeyValues :
        \E r \in PublicKey_add_exp_assign(pk, other) :
            /\ pk' = r.self
            /\ op' = "PublicKey::add_exp_assign" /\ res' = r.res
            /\ arg' = <<other>> /\ out' = <<>>
    /\ UNCHANGED sk

Call_PublicKey_mul_assign ==
    /\ Running
    /\ \E other \in SecretKeyValues :
        \E r \in PublicKey_mul_assign(pk, other) :
            /\ pk' = r.self
            /\ op' = "PublicKey::mul_assign" /\ res' = r.res
            /\ arg' = <<other>> /\ out' = <<>>
    /\ UNCHANGED sk

Call_PublicKey_combine ==
    /\ Running
    /\ \E other \in PublicKeyValues :
        LET r == PublicKey_combine(pk, other)
        IN /\ op' = "PublicKey::combine" /\ res' = r.res
           /\ arg' = <<other>> /\ out' = r.val
    /\ UNCHANGED <<sk, pk>>

Call_PublicKey_cmp ==
    /\ Running
    /\ \E other \in PublicKeyValues :
        /\ op' = "PublicKey::cmp" /\ res' = PublicKey_cmp(pk, other)
        /\ arg' = <<other>> /\ out' = <<>>
    /\ UNCHANGED <<sk, pk>>

Init ==
    /\ sk = ONE_KEY
    /\ pk = secp256k1_pubkey_save(Generator)
    /\ op = "init" /\ res = "Ok" /\ arg = <<>> /\ out = <<>>

Next ==
    \/ Call_ZERO_KEY
    \/ Call_ONE_KEY
    \/ Call_SecretKey_new
    \/ Call_SecretKey_from_slice
    \/ Call_SecretKey_deserialize
    \/ Call_SecretKey_add_assign
    \/ Call_SecretKey_mul_assign
    \/ Call_PublicKey_from_secret_key
    \/ Call_PublicKey_from_slice
    \/ Call_PublicKey_deserialize
    \/ Call_PublicKey_from
    \/ Call_PublicKey_serialize
    \/ Call_PublicKey_serialize_uncompressed
    \/ Call_PublicKey_add_exp_assign
    \/ Call_PublicKey_mul_assign
    \/ Call_PublicKey_combine
    \/ Call_PublicKey_cmp

Spec == Init /\ [][Next]_vars

(* The two from_slice functions on every byte string up to MaxSliceLen:   *)
(* the input is drawn first, then one of them is applied to it            *)
RECURSIVE SeqsUpTo(_)
SeqsUpTo(n) == IF n = 0 THEN {<<>>}
               ELSE {<<>>} \cup {<<b>> \o s : b \in Byte, s \in SeqsUpTo(n - 1)}

AllSlices == SeqsUpTo(MaxSliceLen)

InitSlice ==
    /\ sk = ONE_KEY
    /\ pk = secp256k1_pubkey_save(Generator)
    /\ op = "input" /\ res = "Ok" /\ out = <<>>
    /\ arg \in {<<data>> : data \in AllSlices}

Slice_SecretKey_from_slice ==
    /\ op = "input"
    /\ SecretKey_from_slice_step(arg[1])

Slice_PublicKey_from_slice ==
    /\ op = "input"
    /\ PublicKey_from_slice_step(arg[1])

NextSlice ==
    \/ Slice_SecretKey_from_slice
    \/ Slice_PublicKey_from_slice

SpecSlice == InitSlice /\ [][NextSlice]_vars

(* SecretKey::new statement by statement, on a randomness source that is  *)
(* drawn first. A source is what fill_bytes yields call after call: a     *)
(* run of up to MaxStream draws, or the BadRng of test_out_of_range; past *)
(* its end it keeps yielding its last draw. arg is the rng (its stream    *)
(* and the number of calls made), out is the local data                   *)
RECURSIVE BadRng(_)
BadRng(c) ==
    LET data == [ToBE(GroupOrder, SECRET_KEY_SIZE) EXCEPT ![SECRET_KEY_SIZE] = c]
    IN IF c = 0 THEN <<data>> ELSE <<data>> \o BadRng(c - 1)

RngSources ==
    {e : e \in RngRuns(MaxStream)} \cup {BadRng(ByteBase - 1)}

(* fn random_32_bytes: one fill_bytes call on the rng *)
random_32_bytes(rng) ==
    LET stream == rng[1]
        calls == rng[2]
        next == IF calls < Len(stream) THEN calls + 1 ELSE Len(stream)
    IN [ret |-> stream[next], rng |-> <<stream, next>>]

InitNew ==
    /\ sk = ONE_KEY
    /\ pk = secp256k1_pubkey_save(Generator)
    /\ op = "rng" /\ res = "Ok" /\ out = <<>>
    /\ arg \in {<<stream, 0>> : stream \in RngSources}

(* let mut data = random_32_bytes(rng) *)
New_draw ==
    /\ op = "rng"
    /\ out' = random_32_bytes(arg).ret
    /\ arg' = random_32_bytes(arg).rng
    /\ op' = "SecretKey::new:while"
    /\ UNCHANGED <<sk, pk, res>>

(* while seckey_verify(data) == 0 { data = random_32_bytes(rng) } *)
New_redraw ==
    /\ op = "SecretKey::new:while"
    /\ secp256k1_ec_seckey_verify(out) = 0
    /\ out' = random_32_bytes(arg).ret
    /\ arg' = random_32_bytes(arg).rng
    /\ UNCHANGED <<sk, pk, op, res>>

(* a return of data that does not wait for the backend to accept it *)
New_return_unverified ==
    /\ op = "SecretKey::new:while"
    /\ sk' = out
    /\ op' = "SecretKey::new"
    /\ UNCHANGED <<pk, res, arg, out>>

(* the loop exits and SecretKey(data) is returned *)
New_return ==
    /\ op = "SecretKey::new:while"
    /\ secp256k1_ec_seckey_verify(out) # 0
    /\ sk' = out
    /\ op' = "SecretKey::new"
    /\ UNCHANGED <<pk, res, arg, out>>

NextNew ==
    \/ New_draw
    \/ New_redraw
    \/ New_return

(* the function runs on: no statement of it waits for anything *)
SpecNew == InitNew /\ [][NextNew]_vars /\ WF_vars(NextNew)

----------------------------------------------------------------------------
(* Properties *)

(* a 32-byte scalar in [1, order - 1] *)
ValidSecretKey(k) ==
    Len(k) = SECRET_KEY_SIZE /\ 1 <= BE(k) /\ BE(k) <= GroupOrder - 1

(* a buffer that stores a point of the curve *)
ValidPublicKey(p) == \E q \in CurvePoints : p = secp256k1_pubkey_save(q)

(* byte strings compared as Rust compares slices *)
BytesLess(a, b) ==
    \/ \E i \in 1 .. Len(a) :
           /\ i <= Len(b) /\ a[i] < b[i]
           /\ \A j \in 1 .. (i - 1) : a[j] = b[j]
    \/ Len(a) < Len(b) /\ \A j \in 1 .. Len(a) : a[j] = b[j]

(* what a call that did not panic returned *)
Returned(outcomes) == {r.val : r \in {o \in outcomes : o.res = "Ok"}}

(* C1: every SecretKey the caller can hold is nonzero and below the       *)
(* group order                                                            *)
C1_SecretKeyAlwaysValid == ValidSecretKey(sk)

(* C2: every PublicKey the caller can hold is a point on the curve        *)
C2_PublicKeyAlwaysValid == ValidPublicKey(pk)

(* C3: SecretKey::from_slice(data) is Ok(data verbatim) exactly when data *)
(* is SECRET_KEY_SIZE bytes with value in [1, order - 1], and             *)
(* Err(InvalidSecretKey) in every other case                              *)
C3_SecretKeyFromSlice ==
    op = "SecretKey::from_slice" =>
        IF Len(arg[1]) = SECRET_KEY_SIZE /\ 1 <= BE(arg[1]) /\ BE(arg[1]) <= GroupOrder - 1
        THEN res = "Ok" /\ out = arg[1] /\ sk = arg[1]
        ELSE res = "InvalidSecretKey"

C3_Witness ==
    /\ op = "SecretKey::from_slice" /\ res = "Ok"
    /\ BE(arg[1]) = GroupOrder - 1

(* C4: PublicKey::from_slice(data) is Ok exactly when data is the         *)
(* compressed or the uncompressed encoding of a point on the curve, the   *)
(* key then holding that point, and Err(InvalidPublicKey) in every other  *)
(* case                                                                   *)
C4_PublicKeyFromSlice ==
    op = "PublicKey::from_slice" =>
        IF \E q \in CurvePoints : arg[1] \in {Compressed(q), Uncompressed(q)}
        THEN /\ res = "Ok"
             /\ \E q \in CurvePoints :
                    /\ arg[1] \in {Compressed(q), Uncompressed(q)}
                    /\ pk = secp256k1_pubkey_save(q) /\ out = pk
        ELSE res = "InvalidPublicKey"

C4_Witness ==
    /\ op = "PublicKey::from_slice" /\ res = "Ok"
    /\ Len(arg[1]) = UNCOMPRESSED_PUBLIC_KEY_SIZE

(* C5: the bytes of every valid SecretKey parse back to it, and both      *)
(* serializations of every PublicKey parse back to it                     *)
C5_RoundTrip ==
    /\ ValidSecretKey(sk) => SecretKey_from_slice(sk) = [res |-> "Ok", val |-> sk]
    /\ \A r \in PublicKey_serialize(pk) \cup PublicKey_serialize_uncompressed(pk) :
           /\ r.res = "Ok"
           /\ PublicKey_from_slice(r.val).res = "Ok"
           /\ PublicKey_eq(PublicKey_from_slice(r.val).val, pk)


(* the round trip of C5 for the keys that hold a validated point *)
RoundTripOfValidKeys ==
    ValidPublicKey(pk) =>
        \A r \in PublicKey_serialize(pk) \cup PublicKey_serialize_uncompressed(pk) :
            /\ r.res = "Ok"
            /\ PublicKey_from_slice(r.val) = [res |-> "Ok", val |-> pk]

TweakOps ==
    {"SecretKey::add_assign", "SecretKey::mul_assign",
     "PublicKey::add_exp_assign", "PublicKey::mul_assign"}

(* C6: an in-place tweak that returns Err leaves the key as it was, and   *)
(* one that returns Ok leaves a valid key                                 *)
C6_TweakAtomic ==
    [][op' \in TweakOps =>
          IF res' = "Ok"
          THEN IF op' \in {"SecretKey::add_assign", "SecretKey::mul_assign"}
               THEN ValidSecretKey(sk')
               ELSE ValidPublicKey(pk')
          ELSE sk' = sk /\ pk' = pk]_vars

(* every PublicKey that from_secret_key can return for k *)
Derived(k) == Returned(PublicKey_from_secret_key(k))

(* C7: for a valid key k and a valid tweak t, k.add_assign(t) succeeds    *)
(* exactly when from_secret_key(k).add_exp_assign(t) does, and then the   *)
(* key derived from the tweaked k is the tweaked public key; the same for *)
(* mul_assign on both sides                                               *)
C7_DerivationCommutes ==
    [][/\ (op' = "SecretKey::add_assign" /\ ValidSecretKey(sk) /\ ValidSecretKey(arg'[1])) =>
              \A p \in Derived(sk) : \A r \in PublicKey_add_exp_assign(p, arg'[1]) :
                  /\ (r.res = "Ok") <=> (res' = "Ok")
                  /\ res' = "Ok" => Derived(sk') = {r.self}
       /\ (op' = "SecretKey::mul_assign" /\ ValidSecretKey(sk) /\ ValidSecretKey(arg'[1])) =>
              \A p \in Derived(sk) : \A r \in PublicKey_mul_assign(p, arg'[1]) :
                  /\ (r.res = "Ok") <=> (res' = "Ok")
                  /\ res' = "Ok" => Derived(sk') = {r.self}
       /\ (op' = "PublicKey::add_exp_assign" /\ ValidSecretKey(sk) /\ ValidSecretKey(arg'[1])
             /\ pk \in Derived(sk)) =>
              \A r \in SecretKey_add_assign(sk, arg'[1]) :
                  /\ (r.res = "Ok") <=> (res' = "Ok")
                  /\ res' = "Ok" => Derived(r.self) = {pk'}
       /\ (op' = "PublicKey::mul_assign" /\ ValidSecretKey(sk) /\ ValidSecretKey(arg'[1])
             /\ pk \in Derived(sk)) =>
              \A r \in SecretKey_mul_assign(sk, arg'[1]) :
                  /\ (r.res = "Ok") <=> (res' = "Ok")
                  /\ res' = "Ok" => Derived(r.self) = {pk'}]_vars

C7_Witness ==
    /\ op = "PublicKey::add_exp_assign" /\ res = "Ok"
    /\ ValidSecretKey(arg[1]) /\ ValidSecretKey(sk)
    /\ \E r \in SecretKey_add_assign(sk, arg[1]) : r.res = "Ok" /\ pk \in Derived(r.self)

(* C8: combine is commutative, returns Err(InvalidPublicKey) exactly when *)
(* other is the negation of self and Ok(self + other) otherwise           *)
C8_Combine ==
    op = "PublicKey::combine" =>
        LET a == secp256k1_pubkey_load(pk)
            b == secp256k1_pubkey_load(arg[1])
        IN /\ PublicKey_combine(arg[1], pk) = [res |-> res, val |-> out]
           /\ IF b = PointNeg(a)
              THEN res = "InvalidPublicKey"
              ELSE res = "Ok" /\ out = secp256k1_pubkey_save(PointAdd(a, b))

(* the statement of C8 for the keys that hold a validated point *)
CombineOfValidKeys ==
    (op = "PublicKey::combine" /\ ValidPublicKey(pk) /\ ValidPublicKey(arg[1])) => C8_Combine

(* C9: two PublicKeys are equal exactly when their compressed             *)
(* serializations are byte-equal                                          *)
C9_EqIsSerializedEq ==
    op = "PublicKey::cmp" =>
        \A sa \in Returned(PublicKey_serialize(pk)) :
            \A sb \in Returned(PublicKey_serialize(arg[1])) :
                (res = "Equal") <=> (sa = sb)

(* the statement of C9 for the keys that hold a validated point *)
EqOfValidKeys ==
    (op = "PublicKey::cmp" /\ ValidPublicKey(pk) /\ ValidPublicKey(arg[1]))
        => C9_EqIsSerializedEq

(* C10 as stated: a < b exactly when a.serialize() precedes b.serialize() *)
(* byte-wise                                                              *)
C10_OrdIsSerializedOrd ==
    op = "PublicKey::cmp" =>
        \A sa \in Returned(PublicKey_serialize(pk)) :
            \A sb \in Returned(PublicKey_serialize(arg[1])) :
                (res = "Less") <=> BytesLess(sa, sb)

(* C10 as amended: a < b exactly when the wrapped buffer of a precedes    *)
(* that of b byte-wise; exactly one of a < b, a == b, b < a holds         *)
C10_OrdIsBufferOrd ==
    op = "PublicKey::cmp" =>
        LET a == pk
            b == arg[1]
            n == (IF PublicKey_lt(a, b) THEN 1 ELSE 0)
                     + (IF PublicKey_eq(a, b) THEN 1 ELSE 0)
                     + (IF PublicKey_lt(b, a) THEN 1 ELSE 0)
        IN /\ n = 1
           /\ (res = "Less") <=> BytesLess(a, b)
           /\ (res = "Equal") <=> (a = b)
           /\ (res = "Greater") <=> BytesLess(b, a)

C10_Witness ==
    /\ op = "PublicKey::cmp" /\ res = "Less"
    /\ ValidPublicKey(pk) /\ ValidPublicKey(arg[1])
    /\ \E sa \in Returned(PublicKey_serialize(pk)) :
           \E sb \in Returned(PublicKey_serialize(arg[1])) :
               BytesLess(sb, sa) /\ sa[1] = sb[1]

(* the index of the first draw of a source that the backend accepts, 0 if *)
(* it accepts none                                                        *)
FirstAccepted(stream) ==
    LET ok == {i \in 1 .. Len(stream) : ValidSecretKey(stream[i])}
    IN IF ok = {} THEN 0 ELSE CHOOSE i \in ok : \A j \in ok : i <= j

(* C11: SecretKey::new returns exactly the first draw of the randomness   *)
(* source that the backend accepts, having made one draw for it and one   *)
(* for every rejected draw before it, so the key it returns is valid; and *)
(* on every source that yields an acceptable draw at some point it        *)
(* returns                                                                *)
C11_NewReturnsFirstAccepted ==
    /\ [](op = "SecretKey::new" =>
              /\ ValidSecretKey(sk)
              /\ FirstAccepted(arg[1]) # 0
              /\ arg[2] = FirstAccepted(arg[1])
              /\ sk = arg[1][FirstAccepted(arg[1])]
              /\ sk = SecretKey_new(arg[1]))
    /\ [](op = "rng" /\ FirstAccepted(arg[1]) # 0 => <>(op = "SecretKey::new"))

C11_Witness ==
    /\ op = "SecretKey::new"
    /\ arg[1] = BadRng(ByteBase - 1)
    /\ arg[2] > 2
    /\ arg[2] < Len(arg[1])

(* the point a validated buffer stores *)
PointOf(p) == CHOOSE q \in CurvePoints : p = secp256k1_pubkey_save(q)

(* a compressed and an uncompressed encoding of the same point: the tags, *)
(* the same x, and the y whose parity the compressed tag states           *)
AgreeingEncodings(c, u) ==
    /\ Len(c) = PUBLIC_KEY_SIZE
    /\ Len(u) = UNCOMPRESSED_PUBLIC_KEY_SIZE
    /\ u[1] = SECP256K1_TAG_PUBKEY_UNCOMPRESSED
    /\ SubSeq(c, 2, PUBLIC_KEY_SIZE) = SubSeq(u, 2, PUBLIC_KEY_SIZE)
    /\ c[1] = (IF BE(SubSeq(u, PUBLIC_KEY_SIZE + 1, UNCOMPRESSED_PUBLIC_KEY_SIZE)) % 2 = 0
               THEN SECP256K1_TAG_PUBKEY_EVEN
               ELSE SECP256K1_TAG_PUBKEY_ODD)

SerializeOps == {"PublicKey::serialize", "PublicKey::serialize_uncompressed"}

(* C12: whatever PublicKey p the caller holds, serialize and              *)
(* serialize_uncompressed return, leave p as it was, and give the         *)
(* compressed encoding (tag by the parity of y, then x) and the           *)
(* uncompressed encoding (tag, the same x, then y) of one point           *)
C12_WireEncodings ==
    [][op' \in SerializeOps =>
           /\ pk' = pk
           /\ res' = "Ok"
           /\ \A c \in PublicKey_serialize(pk) :
                  \A u \in PublicKey_serialize_uncompressed(pk) :
                      /\ c.res = "Ok" /\ u.res = "Ok"
                      /\ AgreeingEncodings(c.val, u.val)
                      /\ out' = (IF op' = "PublicKey::serialize" THEN c.val ELSE u.val)]_vars

(* the encodings of C12 for the keys that hold a validated point *)
WireEncodingsOfValidKeys ==
    [][op' \in SerializeOps /\ ValidPublicKey(pk) =>
           /\ pk' = pk
           /\ res' = "Ok"
           /\ out' = (IF op' = "PublicKey::serialize"
                      THEN Compressed(PointOf(pk))
                      ELSE Uncompressed(PointOf(pk)))
           /\ AgreeingEncodings(Compressed(PointOf(pk)), Uncompressed(PointOf(pk)))]_vars

(* C13: whatever SecretKey the caller holds, from_secret_key finds the    *)
(* backend's point creation returning 1: the assertion res == 1 holds     *)
(* and the PublicKey returned is a validated point, never the blank       *)
(* buffer                                                                 *)
C13_FromSecretKeyNeverFails ==
    op = "PublicKey::from_secret_key" =>
        /\ secp256k1_ec_pubkey_create(ffi_PublicKey_new, arg[1]).ret = 1
        /\ res = "Ok"
        /\ ValidPublicKey(pk)

(* the failure branch of C13 is not taken for the keys that hold a valid  *)
(* scalar                                                                 *)
FromSecretKeyOfValidKeys ==
    op = "PublicKey::from_secret_key" /\ ValidSecretKey(arg[1]) =>
        /\ res = "Ok"
        /\ pk = secp256k1_pubkey_save(PointMul(BE(arg[1]), Generator))

====
